---------------------------- MODULE Spec2Model ----------------------------
(***************************************************************************)
(* A model of the order-taking orchestrator: the TTL-bounded MemoryStore,  *)
(* the SessionContext record, MenuValidator.validate_items, and one turn   *)
(* of AgentCore.handle cut at its suspension points (the awaits on the     *)
(* n8n, POS and analytics ports).                                          *)
(*                                                                         *)
(* Python objects are modelled with identity: the store maps a session key *)
(* to a reference into `heap`, because MemoryStore.load hands out the very *)
(* object it stores and AgentCore.handle mutates it in place.              *)
(***************************************************************************)
EXTENDS Integers, Sequences, FiniteSets, TLC

(***************************************************************************)
(* Text.  A Python str is a sequence of one-character strings.             *)
(***************************************************************************)
None == "<None>"

UpperChars == <<"A", "B", "C", "D", "E", "F", "G", "H", "I", "J", "K", "L", "M",
               "N", "O", "P", "Q", "R", "S", "T", "U", "V", "W", "X", "Y", "Z">>

LowerChars == <<"a", "b", "c", "d", "e", "f", "g", "h", "i", "j", "k", "l", "m",
               "n", "o", "p", "q", "r", "s", "t", "u", "v", "w", "x", "y", "z">>

WhiteChars == {" ", "\t", "\n"}

LowerChar(ch) ==
    IF \E i \in 1..Len(UpperChars) : UpperChars[i] = ch
    THEN LowerChars[CHOOSE i \in 1..Len(UpperChars) : UpperChars[i] = ch]
    ELSE ch

\* str.lower()
Lower(s) == [i \in 1..Len(s) |-> LowerChar(s[i])]

\* str.strip()
Strip(s) ==
    LET keep == {i \in 1..Len(s) : s[i] \notin WhiteChars}
    IN  IF keep = {} THEN <<>>
        ELSE LET lo == CHOOSE i \in keep : \A j \in keep : i <= j
                 hi == CHOOSE i \in keep : \A j \in keep : j <= i
             IN  SubSeq(s, lo, hi)

(***************************************************************************)
(* difflib.SequenceMatcher(None, a, b).ratio() = 2*M / (len(a)+len(b)),    *)
(* M the total size of the matching blocks.  No junk: isjunk is None and   *)
(* the autojunk heuristic needs a second sequence of 200 elements or more. *)
(* Index ranges are half open, [lo, hi), over 1-based sequences.           *)
(***************************************************************************)
IsBlock(a, b, i, j, k) == \A d \in 0..(k - 1) : a[i + d] = b[j + d]

\* find_longest_match: the longest block; of those the one starting
\* earliest in a; of those the one starting earliest in b.
FindLongestMatch(a, b, alo, ahi, blo, bhi) ==
    LET blocks == {m \in (alo..(ahi - 1)) \X (blo..(bhi - 1)) \X (1..(ahi - alo)) :
                      /\ m[1] + m[3] <= ahi
                      /\ m[2] + m[3] <= bhi
                      /\ IsBlock(a, b, m[1], m[2], m[3])}
        Better(m, n) == \/ m[3] > n[3]
                        \/ m[3] = n[3] /\ m[1] < n[1]
                        \/ m[3] = n[3] /\ m[1] = n[1] /\ m[2] <= n[2]
    IN  IF blocks = {} THEN <<alo, blo, 0>>
        ELSE CHOOSE m \in blocks : \A n \in blocks : Better(m, n)

RECURSIVE MatchCount(_, _, _, _, _, _)
\* get_matching_blocks, summed: the block, then what is left of it and
\* what is right of it.
MatchCount(a, b, alo, ahi, blo, bhi) ==
    IF alo >= ahi \/ blo >= bhi THEN 0
    ELSE LET m == FindLongestMatch(a, b, alo, ahi, blo, bhi)
         IN  IF m[3] = 0 THEN 0
             ELSE m[3] + MatchCount(a, b, alo, m[1], blo, m[2])
                       + MatchCount(a, b, m[1] + m[3], ahi, m[2] + m[3], bhi)

\* ratio() as the fraction <<numerator, denominator>>; 1.0 for two empty
\* sequences.
Ratio(a, b) ==
    IF Len(a) + Len(b) = 0 THEN <<1, 1>>
    ELSE <<2 * MatchCount(a, b, 1, Len(a) + 1, 1, Len(b) + 1), Len(a) + Len(b)>>

\* p > q and p >= q on fractions with positive denominators
FracGt(p, q) == p[1] * q[2] > q[1] * p[2]

FracGe(p, q) == p[1] * q[2] >= q[1] * p[2]

(***************************************************************************)
(* MenuValidator.  A menu item is either a dict {name, price} or a bare    *)
(* string: [isdict, name, price], name the empty text for a dict without   *)
(* one, price None for a bare string.                                      *)
(***************************************************************************)
\* MenuValidator(fuzzy_threshold=0.7), as a fraction
FuzzyThreshold == <<7, 10>>

\* name = (m.get("name") or "").strip()  /  str(m).strip(), then .lower()
ItemNameLower(m) == Lower(Strip(m.name))

\* names_lower: the non-empty normalized names in menu order, duplicates kept
RECURSIVE NamesLower(_)
NamesLower(menu_items) ==
    IF menu_items = <<>> THEN <<>>
    ELSE LET lower == ItemNameLower(Head(menu_items))
         IN  IF lower = <<>> THEN NamesLower(Tail(menu_items))
             ELSE <<lower>> \o NamesLower(Tail(menu_items))

\* a lookup that gives the first entry of the menu whatever the name
NameToFirstItem(menu_items, lower) == menu_items[1]

\* name_to_item[lower] = m: a later entry with the same name overwrites
NameToItem(menu_items, lower) ==
    LET idx == {i \in 1..Len(menu_items) : ItemNameLower(menu_items[i]) = lower}
    IN  menu_items[CHOOSE i \in idx : \A j \in idx : j <= i]

InNameToItem(menu_items, lower) ==
    /\ lower # <<>>
    /\ \E i \in 1..Len(menu_items) : ItemNameLower(menu_items[i]) = lower

RECURSIVE BestMatch(_, _, _, _)
\* the fuzzy loop: best_ratio starts at 0.0 and moves only on ratio > best_ratio
BestMatch(cand_lower, names_lower, best_match, best_ratio) ==
    IF names_lower = <<>> THEN [match |-> best_match, ratio |-> best_ratio]
    ELSE LET ratio == Ratio(cand_lower, Head(names_lower))
         IN  IF FracGt(ratio, best_ratio)
             THEN BestMatch(cand_lower, Tail(names_lower), Head(names_lower), ratio)
             ELSE BestMatch(cand_lower, Tail(names_lower), best_match, best_ratio)

\* the test of line 81 turned into >
FuzzyAcceptsAbove(best) == best.match # <<>> /\ FracGt(best.ratio, FuzzyThreshold)

\* if best_match and best_ratio >= self.fuzzy_threshold
FuzzyAccepts(best) == best.match # <<>> /\ FracGe(best.ratio, FuzzyThreshold)

RECURSIVE ValidateLoop(_, _, _, _)
ValidateLoop(ordered_items, menu_items, valid_items, unknown_items) ==
    IF ordered_items = <<>> THEN [valid |-> valid_items, unknown |-> unknown_items]
    ELSE LET candidate  == Strip(Head(ordered_items))
             cand_lower == Lower(candidate)
             rest       == Tail(ordered_items)
             best       == BestMatch(cand_lower, NamesLower(menu_items), <<>>, <<0, 1>>)
         IN  IF candidate = <<>>
             THEN ValidateLoop(rest, menu_items, valid_items, unknown_items)
             ELSE IF InNameToItem(menu_items, cand_lower)
             THEN ValidateLoop(rest, menu_items,
                               Append(valid_items, NameToItem(menu_items, cand_lower)),
                               unknown_items)
             ELSE IF FuzzyAccepts(best)
             THEN ValidateLoop(rest, menu_items,
                               Append(valid_items, NameToItem(menu_items, best.match)),
                               unknown_items)
             ELSE ValidateLoop(rest, menu_items, valid_items,
                               Append(unknown_items, candidate))

\* validate_items with valid_items built back to front
ValidateItemsReversed(ordered_items, menu_items) ==
    LET r == ValidateLoop(ordered_items, menu_items, <<>>, <<>>)
    IN  IF menu_items = <<>> THEN [valid |-> <<>>, unknown |-> ordered_items]
        ELSE [valid   |-> [k \in 1..Len(r.valid) |-> r.valid[Len(r.valid) + 1 - k]],
              unknown |-> r.unknown]

\* validate_items(ordered_items, ctx) with menu_items =
\* ctx.state.scratchpad.get("menu_items") or []
ValidateItems(ordered_items, menu_items) ==
    IF menu_items = <<>> THEN [valid |-> <<>>, unknown |-> ordered_items]
    ELSE ValidateLoop(ordered_items, menu_items, <<>>, <<>>)

(***************************************************************************)
(* Bounds of the model.                                                    *)
(***************************************************************************)
\* turns (requests to /orchestrate) taken in one run, overlapping at will
MaxTurns == 3

\* turns taken in one run when each starts after the last one ended
MaxSeqTurns == 3

\* the clock stops advancing here (minutes)
MaxClock == 61

\* turns taken in one run by the clients of two sessions
MaxPairTurns == 3

\* turns taken in one run that only keeps sessions alive
MaxStoreTurns == 3

\* entries of a menu and lines of an order handed to validate_items
MaxMenuLen == 3

MaxOrderLen == 2

(***************************************************************************)
(* Python values.  A dict is a function on the set of its keys.            *)
(***************************************************************************)
EmptyDict == [k \in {} |-> None]

Has(d, k) == k \in DOMAIN d

\* d.get(k), with None for a missing key (text and id values only)
Get(d, k) == IF Has(d, k) THEN d[k] ELSE None

\* d[k] = v
Put(d, k, v) == [x \in (DOMAIN d) \cup {k} |-> IF x = k THEN v ELSE d[x]]

\* truth value of an optional str
Truthy(x) == x # None /\ x # ""

\* xs[:n]
Take(xs, n) == SubSeq(xs, 1, IF Len(xs) < n THEN Len(xs) ELSE n)

\* last_user_message_at: Optional[datetime] = None
NoTime == -1

(***************************************************************************)
(* SessionContext (SessionMeta, SessionState and ShortTermMemory in one    *)
(* record).                                                                *)
(***************************************************************************)
\* SessionContext.new
SessionContextNew(channel, user_id, session_id, created_at) ==
    [channel              |-> channel,
     user_id              |-> user_id,
     session_id           |-> session_id,
     created_at           |-> created_at,
     last_seen_at         |-> created_at,
     flow                 |-> None,
     step                 |-> None,
     scratchpad           |-> EmptyDict,
     session_done         |-> FALSE,
     history              |-> <<>>,
     turn_count           |-> 0,
     last_user_message_at |-> NoTime]

\* SessionContext.touch
Touch(c, now) == [c EXCEPT !.last_seen_at = now]

\* append_user_message without the line that bumps turn_count
AppendUserMessageNoCount(c, text, timestamp) ==
    Touch([c EXCEPT !.history = Append(@, [role |-> "user", text |-> text,
                                           timestamp |-> timestamp]),
                    !.last_user_message_at = timestamp],
          timestamp)

\* SessionContext.append_user_message
AppendUserMessage(c, text, timestamp) ==
    Touch([c EXCEPT !.history = Append(@, [role |-> "user", text |-> text,
                                           timestamp |-> timestamp]),
                    !.turn_count = @ + 1,
                    !.last_user_message_at = timestamp],
          timestamp)

\* MemorySnapshot.from_ctx
SnapshotFromCtx(c) ==
    [flow                 |-> c.flow,
     step                 |-> c.step,
     scratchpad           |-> c.scratchpad,
     last_user_message_at |-> c.last_user_message_at,
     turn_count           |-> c.turn_count]

(***************************************************************************)
(* MemoryStore.  _store maps a key to a reference (an index of heap), 0    *)
(* for a key that is not in the dict.                                      *)
(***************************************************************************)
\* MemoryStore(ttl_minutes=60)
ttl_minutes == 60

NoRef == 0

\* MemoryStore._key
StoreKey(channel, user_id, session_id) == <<channel, user_id, session_id>>

\* a key that leaves the session id out
KeyOfUser(c) == StoreKey(c.channel, c.user_id, "s1")

KeyOf(c) == StoreKey(c.channel, c.user_id, c.session_id)

\* the test of line 52 turned into >=
ExpiredAtTtl(c, now) == now - c.last_seen_at >= ttl_minutes

\* now - ctx.session.last_seen_at > self.ttl
Expired(c, now) == now - c.last_seen_at > ttl_minutes

\* MemoryStore.load without the pop of line 54: an expired entry stays
LoadKeepsExpired(st, hp, key, now) ==
    IF st[key] = NoRef \/ Expired(hp[st[key]], now) THEN [ref |-> NoRef, store |-> st]
    ELSE [ref |-> st[key], store |-> st]

\* MemoryStore.load: the reference returned (NoRef for None) and the store
\* after the eviction of an expired entry
Load(st, hp, key, now) ==
    IF st[key] = NoRef THEN [ref |-> NoRef, store |-> st]
    ELSE IF Expired(hp[st[key]], now)
    THEN [ref |-> NoRef, store |-> [st EXCEPT ![key] = NoRef]]
    ELSE [ref |-> st[key], store |-> st]

\* MemoryStore.save
Save(st, hp, ref) == [st EXCEPT ![KeyOf(hp[ref])] = ref]

\* purge_expired with the test of line 73 turned into >=
PurgeAtTtl(st, hp, now) ==
    [key \in DOMAIN st |->
        IF st[key] # NoRef /\ ExpiredAtTtl(hp[st[key]], now) THEN NoRef ELSE st[key]]

\* MemoryStore.purge_expired
PurgeExpiredStore(st, hp, now) ==
    [key \in DOMAIN st |->
        IF st[key] # NoRef /\ Expired(hp[st[key]], now) THEN NoRef ELSE st[key]]

(***************************************************************************)
(* Intents, as the text the classifier returns.                            *)
(***************************************************************************)
I_get_menu == <<"g", "e", "t", "_", "m", "e", "n", "u">>

I_provide_phone == <<"p", "r", "o", "v", "i", "d", "e", "_", "p", "h", "o", "n", "e">>

I_provide_address ==
    <<"p", "r", "o", "v", "i", "d", "e", "_", "a", "d", "d", "r", "e", "s", "s">>

I_place_order == <<"p", "l", "a", "c", "e", "_", "o", "r", "d", "e", "r">>

I_chitchat == <<"c", "h", "i", "t", "c", "h", "a", "t">>

I_unknown == <<"u", "n", "k", "n", "o", "w", "n">>

(***************************************************************************)
(* LLMBasedIntentRouter.route.  The classifier's answer is one of          *)
(*   unreachable : client.responses.create raises                          *)
(*   bad_shape   : resp.output[0].content[0].text raises                   *)
(*   bad_json    : json.loads raises, data = {}                            *)
(*   ok          : data is the parsed dict                                 *)
(***************************************************************************)
\* IntentData(intent="unknown", phone=None, address=None, items=[], notes=None)
UnknownIntentData ==
    [intent |-> I_unknown, phone |-> None, address |-> None, items |-> <<>>,
     notes |-> None]

\* the normalisation of a parsed dict, lines 106-126
IntentDataOf(data) ==
    [intent  |-> IF Has(data, "intent") THEN Lower(Strip(data["intent"])) ELSE I_unknown,
     phone   |-> IF Truthy(Get(data, "phone")) THEN data["phone"] ELSE None,
     address |-> IF Truthy(Get(data, "address")) THEN data["address"] ELSE None,
     items   |-> IF Has(data, "items") THEN data["items"] ELSE <<>>,
     notes   |-> IF Truthy(Get(data, "notes")) THEN data["notes"] ELSE None]

RouteRaises(llm) == llm.status = "unreachable"

Route(llm) ==
    IF llm.status = "bad_shape" THEN UnknownIntentData
    ELSE IF llm.status = "bad_json" THEN IntentDataOf(EmptyDict)
    ELSE IntentDataOf(llm.data)

(***************************************************************************)
(* State.                                                                  *)
(***************************************************************************)
VARIABLES
    clock,    \* datetime.now(timezone.utc), in minutes
    cfg,      \* settings: which webhook URLs are configured
    heap,     \* the SessionContext objects ever created; a reference is an index
    store,    \* MemoryStore._store: session key -> reference, NoRef if absent
    nturns,   \* the calls of AgentCore.handle so far
    turns,    \* the suspended calls of handle: number -> locals and position
    last,     \* the call of handle that ended last, as it ended (<<>>: none yet)
    replies   \* session key -> the responses handle has returned for it

vars == <<clock, cfg, heap, store, nturns, turns, last, replies>>

(***************************************************************************)
(* Replies.  The text of a reply is kept as its kind and the values        *)
(* formatted into it.                                                      *)
(***************************************************************************)
NoReply ==
    [kind |-> "none", order_id |-> None, eta |-> None, phone |-> None,
     address |-> None, unknown |-> <<>>, listed |-> <<>>]

Reply(kind) == [NoReply EXCEPT !.kind = kind]

\* ctx.state.scratchpad.get("menu_items") or []
MenuItemsOf(scratchpad) ==
    IF Has(scratchpad, "menu_items") THEN scratchpad["menu_items"] ELSE <<>>

(***************************************************************************)
(* POSGateway.send_to_pos and AnalyticsGateway.send_analytics with a URL   *)
(* configured.  The POST ends with a response (of any status: nothing      *)
(* looks at it) or with an exception (a transport error, the 10 s          *)
(* timeout); the call ends "sent", "swallowed" or "raised".                *)
(***************************************************************************)
PortOutcomes == {"response", "exception"}

\* send_to_pos without the try of lines 63-68
SendToPosUnguarded(outcome) == IF outcome = "exception" THEN "raised" ELSE "sent"

\* send_to_pos, lines 63-68: except Exception: pass
SendToPos(outcome) == IF outcome = "exception" THEN "swallowed" ELSE "sent"

\* send_analytics, lines 82-87: except Exception: pass
SendAnalytics(outcome) == IF outcome = "exception" THEN "swallowed" ELSE "sent"

(***************************************************************************)
(* AgentCore.handle, from the innermost continuation outwards.  Each       *)
(* operator runs the turn t on its context c from one point of the code to *)
(* the next suspension point (or to the return) and gives the context and  *)
(* the turn there: [c, t].  t.pc = "returned" says that memory_store.save  *)
(* was reached.                                                            *)
(***************************************************************************)
\* line 203: session_done = ctx.state.session_done
SessionDoneOf(c) == c.session_done

\* lines 203 and 101-123: session_done read back, snapshot, analytics, save
AfterHandler(c, t, reply_text) ==
    LET session_done == SessionDoneOf(c)
        c1 == [c EXCEPT !.session_done = session_done]
        t1 == [t EXCEPT !.reply = reply_text,
                        !.session_done = session_done,
                        !.snapshot = <<SnapshotFromCtx(c1)>>]
    IN  [c |-> c1,
         t |-> [t1 EXCEPT !.pc = IF cfg.analytics_url THEN "await_analytics"
                                 ELSE "returned"]]

\* _handle_get_menu without the early return of lines 226-230: whatever
\* came back is cached and listed
AfterMenuPortCachesAll(c, t, data) ==
    LET menu_items == IF Has(data, "menu") /\ data["menu"] # <<>> THEN data["menu"]
                      ELSE IF Has(data, "items") THEN data["items"]
                      ELSE <<>>
    IN  AfterHandler([c EXCEPT !.scratchpad = Put(@, "menu_items", menu_items)],
                     t,
                     [Reply("menu") EXCEPT !.listed = Take(menu_items, 10)])

\* _handle_get_menu, lines 225-250, from the answer of the menu webhook
AfterMenuPort(c, t, data) ==
    LET menu_items == IF Has(data, "menu") /\ data["menu"] # <<>> THEN data["menu"]
                      ELSE IF Has(data, "items") THEN data["items"]
                      ELSE <<>>
    IN  IF menu_items = <<>>
        THEN AfterHandler(c, t, Reply("menu_unavailable"))
        ELSE AfterHandler([c EXCEPT !.scratchpad = Put(@, "menu_items", menu_items)],
                          t,
                          [Reply("menu") EXCEPT !.listed = Take(menu_items, 10)])

\* _handle_get_menu, lines 216-223
HandleGetMenu(c, t) ==
    IF cfg.menu_url THEN [c |-> c, t |-> [t EXCEPT !.pc = "await_menu"]]
    ELSE AfterMenuPort(c, t, [error |-> "url_not_configured"])

\* _handle_phone, lines 270-283, from the answer of the phone webhook
AfterPhonePort(c, t, data) ==
    LET verified   == Has(data, "verified") /\ data["verified"]
        normalized == IF Has(data, "normalized_phone") THEN data["normalized_phone"]
                      ELSE t.phone
        c1         == [c EXCEPT !.scratchpad = Put(@, "phone", normalized)]
    IN  AfterHandler(c1, t,
                     [Reply(IF verified THEN "phone_verified_ask_address"
                            ELSE "phone_unverified_ask_phone")
                         EXCEPT !.phone = normalized])

\* _handle_phone, lines 258-268
HandlePhone(c, t) ==
    LET phone == IF Truthy(t.intent_data.phone) THEN t.intent_data.phone
                 ELSE Get(c.scratchpad, "phone")
        t1    == [t EXCEPT !.phone = phone]
    IN  IF ~Truthy(phone) THEN AfterHandler(c, t, Reply("phone_ask_again"))
        ELSE IF cfg.phone_url THEN [c |-> c, t |-> [t1 EXCEPT !.pc = "await_phone"]]
        ELSE AfterPhonePort(c, t1, [error |-> "url_not_configured"])

\* _handle_address
HandleAddress(c, t) ==
    LET address == IF Truthy(t.intent_data.address) THEN t.intent_data.address
                   ELSE Get(c.scratchpad, "address")
    IN  IF ~Truthy(address) THEN AfterHandler(c, t, Reply("address_ask_again"))
        ELSE AfterHandler([c EXCEPT !.scratchpad = Put(@, "address", address)], t,
                          [Reply("address_ask_confirm") EXCEPT !.address = address])

\* _handle_order, lines 383-396, after send_to_pos
AfterPos(c, t) ==
    AfterHandler([c EXCEPT !.session_done = TRUE], t,
                 [Reply("order_placed") EXCEPT
                     !.order_id = IF Truthy(t.order_id) THEN t.order_id ELSE None,
                     !.eta = IF Truthy(t.eta) THEN t.eta ELSE None])

\* _handle_order, lines 376-396, from the end of the POST of send_to_pos
AfterPosPort(c, t, outcome) ==
    LET ended == SendToPos(outcome)
        t1    == [t EXCEPT !.notified = Append(@, [port |-> "pos", ended |-> ended])]
    IN  IF ended = "raised"
        THEN [c |-> c, t |-> [t1 EXCEPT !.pc = "raised", !.exc = "pos"]]
        ELSE AfterPos(c, t1)

\* handle, lines 107-123, from the end of the POST of send_analytics:
\* memory_store.save and the return
AfterAnalyticsPort(c, t, outcome) ==
    LET ended == SendAnalytics(outcome)
        t1    == [t EXCEPT !.notified = Append(@, [port |-> "analytics", ended |-> ended])]
    IN  IF ended = "raised"
        THEN [c |-> c, t |-> [t1 EXCEPT !.pc = "raised", !.exc = "analytics"]]
        ELSE [c |-> c, t |-> [t1 EXCEPT !.pc = "returned"]]

\* _handle_order, lines 368-381, from the answer of the order webhook
AfterOrderPort(c, t, data) ==
    LET order_id == Get(data, "order_id")
        eta      == Get(data, "eta")
        c1 == [c EXCEPT !.scratchpad =
                  Put(Put(@, "last_order_id", order_id),
                      "last_order_items", t.payload_items)]
        t1 == [t EXCEPT !.order_id = order_id,
                        !.eta = eta,
                        !.pos_calls = Append(@, [order_id |-> order_id,
                                                 items    |-> t.payload_items,
                                                 notes    |-> t.intent_data.notes])]
    IN  IF cfg.pos_url THEN [c |-> c1, t |-> [t1 EXCEPT !.pc = "await_pos"]]
        ELSE AfterPos(c1, t1)

\* line 327 with the test dropped: the order goes out whatever is unmatched
AsksToClarifyNever(v) == FALSE

\* the branch taken on unknown_items, line 327
AsksToClarify(v) == v.unknown # <<>>

\* _handle_order, lines 315-367
HandleOrder(c, t) ==
    LET ordered_items == t.intent_data.items
        phone   == Get(c.scratchpad, "phone")
        address == Get(c.scratchpad, "address")
        v       == ValidateItems(ordered_items, MenuItemsOf(c.scratchpad))
        t0      == [t EXCEPT !.validated = <<v>>]
        t1      == [t0 EXCEPT
                      !.payload_items = v.valid,
                      !.order_calls = Append(@, [session_id |-> c.session_id,
                                                 user_id    |-> c.user_id,
                                                 intent     |-> "place_order",
                                                 items      |-> v.valid,
                                                 notes      |-> t.intent_data.notes,
                                                 phone      |-> phone,
                                                 address    |-> address])]
    IN  IF AsksToClarify(v)
        THEN AfterHandler(c, t0,
                          [Reply("order_clarify") EXCEPT
                              !.unknown = v.unknown,
                              !.listed = Take(MenuItemsOf(c.scratchpad), 8)])
        ELSE IF cfg.order_url THEN [c |-> c, t |-> [t1 EXCEPT !.pc = "await_order"]]
        ELSE AfterOrderPort(c, t1, [error |-> "url_not_configured"])

\* the step label of an intent, lines 170-195
StepOf(intent) ==
    IF intent = I_get_menu THEN "menu"
    ELSE IF intent = I_provide_phone THEN "phone"
    ELSE IF intent = I_provide_address THEN "address"
    ELSE IF intent = I_place_order THEN "order"
    ELSE IF intent \in {I_chitchat, I_unknown} THEN "fallback"
    ELSE "unknown"

\* lines 164-165 without the assignment: flow stays as it is
FlowKept(c) == c.flow

\* lines 164-165: if ctx.state.flow is None: ctx.state.flow = "food_order"
FlowAtDispatch(c) == IF c.flow = None THEN "food_order" ELSE c.flow

\* _route_intent with a dispatcher that empties the scratchpad first
RouteIntentResets(c, t) ==
    LET intent == t.intent_data.intent
        c1 == [c EXCEPT !.flow = FlowAtDispatch(c),
                        !.step = StepOf(intent),
                        !.scratchpad = EmptyDict]
    IN  IF intent = I_get_menu THEN HandleGetMenu(c1, t)
        ELSE IF intent = I_provide_phone THEN HandlePhone(c1, t)
        ELSE IF intent = I_provide_address THEN HandleAddress(c1, t)
        ELSE IF intent = I_place_order THEN HandleOrder(c1, t)
        ELSE IF intent \in {I_chitchat, I_unknown}
        THEN AfterHandler(c1, t, Reply("fallback"))
        ELSE AfterHandler(c1, t, Reply("not_understood"))

\* _route_intent
RouteIntent(c, t) ==
    LET intent == t.intent_data.intent
        c1 == [c EXCEPT !.flow = FlowAtDispatch(c),
                        !.step = StepOf(intent)]
    IN  IF intent = I_get_menu THEN HandleGetMenu(c1, t)
        ELSE IF intent = I_provide_phone THEN HandlePhone(c1, t)
        ELSE IF intent = I_provide_address THEN HandleAddress(c1, t)
        ELSE IF intent = I_place_order THEN HandleOrder(c1, t)
        ELSE IF intent \in {I_chitchat, I_unknown}
        THEN AfterHandler(c1, t, Reply("fallback"))
        ELSE AfterHandler(c1, t, Reply("not_understood"))

\* handle, lines 85-98, on the context that _resolve_session gave
HandleFrom(c, t, llm) ==
    LET c1 == AppendUserMessage(c, t.text, t.now)
    IN  IF RouteRaises(llm)
        THEN [c |-> c1, t |-> [t EXCEPT !.pc = "raised", !.exc = "classifier"]]
        ELSE RouteIntent(c1, [t EXCEPT !.intent_data = Route(llm)])

(***************************************************************************)
(* Inputs: the requests, the classifier's answers and the webhooks'        *)
(* answers the model draws from.                                           *)
(***************************************************************************)
\* (channel, user_id, session_id) of the requests, in order of first use
SessionKeys == <<StoreKey("web", "u1", "s1"), StoreKey("web", "u1", "s2")>>

KeySet == {SessionKeys[j] : j \in 1..Len(SessionKeys)}

T_Fries == <<"F", "r", "i", "e", "s">>

T_Cola == <<"C", "o", "l", "a">>

T_cola_padded == <<" ", "c", "o", "l", "a", " ">>

T_frie == <<"f", "r", "i", "e">>

T_pizza == <<"p", "i", "z", "z", "a">>

T_blank == <<" ", " ">>

\* what the menu webhook may list
Menu1 ==
    <<[isdict |-> TRUE, name |-> T_Fries, price |-> "$3"],
      [isdict |-> FALSE, name |-> T_Cola, price |-> None]>>

OkLLM(data) == [status |-> "ok", data |-> data]

\* the classifier's answers
LLMAnswers ==
    {OkLLM([intent |-> I_get_menu]),
     OkLLM([intent |-> I_provide_phone, phone |-> "555-0100"]),
     OkLLM([intent |-> I_provide_address, address |-> "1 Main St"]),
     OkLLM([intent |-> I_place_order, items |-> <<T_cola_padded, T_frie>>]),
     OkLLM([intent |-> I_place_order, items |-> <<T_Fries, T_pizza>>]),
     OkLLM([intent |-> I_chitchat]),
     OkLLM([intent |-> <<"R", "e", "f", "u", "n", "d">>]),
     [status |-> "bad_json", data |-> EmptyDict],
     [status |-> "bad_shape", data |-> EmptyDict],
     [status |-> "unreachable", data |-> EmptyDict]}

\* the classifier's answers to a request to order that names no item:
\* no items at all, and one blank line
EmptyOrders ==
    {OkLLM([intent |-> I_place_order]),
     OkLLM([intent |-> I_place_order, items |-> <<T_blank>>])}

\* the text of the i-th request
TextOf(i) == <<"msg", i>>

\* the answers of the menu webhook (a 2xx response)
MenuResults == {[menu |-> Menu1], [menu |-> <<>>], [error |-> "no menu"]}

\* the answers of the phone webhook
PhoneResults ==
    {[verified |-> TRUE, normalized_phone |-> "+15550100"], [verified |-> FALSE]}

\* the answers of the order webhook to the order of turn i: an id of its
\* own and an ETA, or a body without order_id
OrderIds == <<"ORD1", "ORD2", "ORD3", "ORD4", "ORD5", "ORD6", "ORD7", "ORD8">>

OrderResults(i) ==
    {[order_id |-> OrderIds[i], eta |-> "30 min"], [error |-> "rejected"]}

\* the deployments: every webhook configured, only the n8n webhooks, none
Configs ==
    {[menu_url |-> TRUE, phone_url |-> TRUE, order_url |-> TRUE,
      pos_url |-> TRUE, analytics_url |-> TRUE],
     [menu_url |-> TRUE, phone_url |-> TRUE, order_url |-> TRUE,
      pos_url |-> FALSE, analytics_url |-> FALSE],
     [menu_url |-> FALSE, phone_url |-> FALSE, order_url |-> FALSE,
      pos_url |-> FALSE, analytics_url |-> FALSE]}

\* the minutes the clock may jump by: up to the TTL exactly, and past it
TickSteps == {ttl_minutes, ttl_minutes + 1}

(***************************************************************************)
(* Init and the actions.                                                   *)
(***************************************************************************)
Init ==
    /\ clock = 0
    /\ cfg \in Configs
    /\ heap = <<>>
    /\ store = [key \in KeySet |-> NoRef]
    /\ nturns = 0
    /\ turns = <<>>
    /\ last = <<>>
    /\ replies = [key \in KeySet |-> 0]

\* the locals of handle at its first line; loaded keeps the context as
\* _resolve_session found it in the store (<<>>: it found none), evicted
\* whether its load popped an expired entry, notified how the calls of
\* send_to_pos and send_analytics that posted have ended
NewTurn(i, key, now, ref, loaded) ==
    [id            |-> i,
     key           |-> key,
     text          |-> TextOf(i),
     now           |-> now,
     ctx           |-> ref,
     loaded        |-> loaded,
     evicted       |-> FALSE,
     pc            |-> "start",
     exc           |-> "none",
     intent_data   |-> UnknownIntentData,
     phone         |-> None,
     validated     |-> <<>>,
     payload_items |-> <<>>,
     order_calls   |-> <<>>,
     pos_calls     |-> <<>>,
     notified      |-> <<>>,
     order_id      |-> None,
     eta           |-> None,
     reply         |-> NoReply,
     session_done  |-> FALSE,
     snapshot      |-> <<>>]

AwaitPcs == {"await_menu", "await_phone", "await_order", "await_pos", "await_analytics"}

InFlight(key) == {i \in DOMAIN turns : turns[i].key = key}

KeyUsed(key) ==
    \/ replies[key] > 0
    \/ store[key] # NoRef
    \/ InFlight(key) # {}

(***************************************************************************)
(* Memory.  An object that neither the store nor a suspended call of       *)
(* handle refers to is gone (CPython frees it with its last reference);    *)
(* its cell is Freed and may be used again.                                *)
(***************************************************************************)
Freed == [SessionContextNew("", "", "", 0) EXCEPT !.flow = "<freed>"]

Live(ref, st, ts) ==
    \/ \E key \in DOMAIN st : st[key] = ref
    \/ \E i \in DOMAIN ts : ts[i].ctx = ref

Collect(hp, st, ts) ==
    LET live == {r \in 1..Len(hp) : Live(r, st, ts)}
        top  == IF live = {} THEN 0 ELSE CHOOSE r \in live : \A q \in live : q <= r
    IN  [r \in 1..top |-> IF r \in live THEN hp[r] ELSE Freed]

\* the cell of a new object
Alloc(hp) ==
    LET free == {r \in 1..Len(hp) : hp[r] = Freed}
    IN  IF free = {} THEN Len(hp) + 1 ELSE CHOOSE r \in free : \A q \in free : r <= q

\* the turn i stands at t: suspended, or ended (returned, raised, cancelled)
Settle(i, t) ==
    /\ turns' = IF t.pc \in AwaitPcs
                THEN [x \in (DOMAIN turns) \cup {i} |-> IF x = i THEN t ELSE turns[x]]
                ELSE [x \in (DOMAIN turns) \ {i} |-> turns[x]]
    /\ last' = IF t.pc \in AwaitPcs THEN last ELSE <<t>>
    /\ replies' = IF t.pc = "returned" THEN [replies EXCEPT ![t.key] = @ + 1]
                  ELSE replies

\* handle from line 80 to its first suspension point; _resolve_session
\* (load, or SessionContext.new) is its first step
TurnBegin(j, llm) ==
    /\ \A h \in 1..(j - 1) : KeyUsed(SessionKeys[h])
    /\ LET key   == SessionKeys[j]
           ld    == Load(store, heap, key, clock)
           fresh == ld.ref = NoRef
           ref   == IF fresh THEN Alloc(heap) ELSE ld.ref
           c0    == IF fresh THEN SessionContextNew(key[1], key[2], key[3], clock)
                    ELSE heap[ref]
           t0    == [NewTurn(nturns + 1, key, clock, ref,
                             IF fresh THEN <<>> ELSE <<c0>>)
                        EXCEPT !.evicted = ld.store # store]
           r     == HandleFrom(c0, t0, llm)
           heap1 == [x \in (DOMAIN heap) \cup {ref} |-> IF x = ref THEN r.c ELSE heap[x]]
       IN  /\ store' = IF r.t.pc = "returned" THEN Save(ld.store, heap1, ref)
                       ELSE ld.store
           /\ Settle(nturns + 1, r.t)
           /\ heap' = Collect(heap1, store', turns')
    /\ nturns' = nturns + 1
    /\ UNCHANGED <<clock, cfg>>

TurnStart(j, llm) ==
    /\ nturns < MaxTurns
    /\ TurnBegin(j, llm)

\* the turn i goes on from a suspension point with r = [c, t]
Resume(i, r) ==
    LET heap1 == [heap EXCEPT ![turns[i].ctx] = r.c]
    IN  /\ store' = IF r.t.pc = "returned" THEN Save(store, heap1, turns[i].ctx)
                    ELSE store
        /\ Settle(i, r.t)
        /\ heap' = Collect(heap1, store', turns')
        /\ UNCHANGED <<clock, cfg, nturns>>

MenuReturns(i, data) ==
    /\ turns[i].pc = "await_menu"
    /\ Resume(i, AfterMenuPort(heap[turns[i].ctx], turns[i], data))

PhoneReturns(i, data) ==
    /\ turns[i].pc = "await_phone"
    /\ Resume(i, AfterPhonePort(heap[turns[i].ctx], turns[i], data))

OrderReturns(i, data) ==
    /\ turns[i].pc = "await_order"
    /\ Resume(i, AfterOrderPort(heap[turns[i].ctx], turns[i], data))

\* the POST of send_to_pos ends, by a response or by an exception
PosReturns(i, outcome) ==
    /\ turns[i].pc = "await_pos"
    /\ Resume(i, AfterPosPort(heap[turns[i].ctx], turns[i], outcome))

\* the POST of send_analytics ends, by a response or by an exception
AnalyticsReturns(i, outcome) ==
    /\ turns[i].pc = "await_analytics"
    /\ Resume(i, AfterAnalyticsPort(heap[turns[i].ctx], turns[i], outcome))

\* N8NGateway._post raises (raise_for_status, a transport error, the 20 s
\* timeout): nothing in handle catches it
PortRaises(i) ==
    /\ turns[i].pc \in {"await_menu", "await_phone", "await_order"}
    /\ Settle(i, [turns[i] EXCEPT
                     !.pc = "raised",
                     !.exc = IF turns[i].pc = "await_menu" THEN "menu"
                             ELSE IF turns[i].pc = "await_phone" THEN "phone"
                             ELSE "order"])
    /\ heap' = Collect(heap, store, turns')
    /\ UNCHANGED <<clock, cfg, store, nturns>>

\* the request is cancelled while handle is suspended
Cancel(i) ==
    /\ Settle(i, [turns[i] EXCEPT !.pc = "cancelled"])
    /\ heap' = Collect(heap, store, turns')
    /\ UNCHANGED <<clock, cfg, store, nturns>>

\* MemoryStore.purge_expired
PurgeExpired ==
    /\ store' = PurgeExpiredStore(store, heap, clock)
    /\ heap' = Collect(heap, store', turns)
    /\ UNCHANGED <<clock, cfg, nturns, turns, last, replies>>

Tick(d) ==
    /\ clock + d <= MaxClock
    /\ clock' = clock + d
    /\ UNCHANGED <<cfg, heap, store, nturns, turns, last, replies>>

Step ==
    \/ \E i \in DOMAIN turns, data \in MenuResults : MenuReturns(i, data)
    \/ \E i \in DOMAIN turns, data \in PhoneResults : PhoneReturns(i, data)
    \/ \E i \in DOMAIN turns : \E data \in OrderResults(i) : OrderReturns(i, data)
    \/ \E i \in DOMAIN turns, outcome \in PortOutcomes : PosReturns(i, outcome)
    \/ \E i \in DOMAIN turns, outcome \in PortOutcomes : AnalyticsReturns(i, outcome)
    \/ \E i \in DOMAIN turns : PortRaises(i)
    \/ \E i \in DOMAIN turns : Cancel(i)
    \/ PurgeExpired
    \/ \E d \in TickSteps : Tick(d)

Next ==
    \/ \E llm \in LLMAnswers : TurnStart(1, llm)
    \/ Step

Spec == Init /\ [][Next]_vars

\* the client of a session sends its next request after the reply to the
\* last one: the turns of one key do not overlap; the requests include
\* orders that name no item
TurnStartInSequence(j, llm) ==
    /\ nturns < MaxSeqTurns
    /\ InFlight(SessionKeys[j]) = {}
    /\ TurnBegin(j, llm)

SeqNext ==
    \/ \E llm \in LLMAnswers \cup EmptyOrders : TurnStartInSequence(1, llm)
    \/ Step

SeqSpec == Init /\ [][SeqNext]_vars

\* two sessions at once: the client of each sends its next request after
\* the reply to its last one, so the turns of one key do not overlap, while
\* the turns of the two keys overlap at will; the classifier gives the
\* intents that wait on a port, small talk, or fails
PairLLMAnswers ==
    {OkLLM([intent |-> I_get_menu]),
     OkLLM([intent |-> I_provide_phone, phone |-> "555-0100"]),
     OkLLM([intent |-> I_place_order, items |-> <<T_cola_padded, T_frie>>]),
     OkLLM([intent |-> I_place_order, items |-> <<T_Fries, T_pizza>>]),
     OkLLM([intent |-> I_chitchat]),
     [status |-> "unreachable", data |-> EmptyDict]}

PairTurnStart(j, llm) ==
    /\ nturns < MaxPairTurns
    /\ InFlight(SessionKeys[j]) = {}
    /\ TurnBegin(j, llm)

PairNext ==
    \/ \E j \in 1..Len(SessionKeys), llm \in PairLLMAnswers : PairTurnStart(j, llm)
    \/ Step

PairSpec == Init /\ [][PairNext]_vars

\* the store under read traffic and sweeps alone: the sessions of two keys
\* are kept alive by small talk, the clock moves, the sweep runs
StoreLLM == OkLLM([intent |-> I_chitchat])

StoreTurnStart(j) ==
    /\ nturns < MaxStoreTurns
    /\ TurnBegin(j, StoreLLM)

StoreNext ==
    \/ \E j \in 1..Len(SessionKeys) : StoreTurnStart(j)
    \/ \E i \in DOMAIN turns, outcome \in PortOutcomes : AnalyticsReturns(i, outcome)
    \/ PurgeExpired
    \/ \E d \in TickSteps : Tick(d)

StoreSpec == Init /\ [][StoreNext]_vars

\* MenuValidator.validate_items on its own: menus and orders drawn from
\* small pools, with names that differ in case and padding only, names one
\* letter apart, an entry without a name, and a blank order line
MenuPool ==
    {[isdict |-> TRUE, name |-> T_Cola, price |-> "$2"],
     [isdict |-> FALSE, name |-> <<"c", "o", "l", "a">>, price |-> None],
     [isdict |-> TRUE, name |-> <<"C", "o", "l", "e">>, price |-> "$3"],
     [isdict |-> TRUE, name |-> <<" ", "F", "r", "i", "e", "s", " ">>, price |-> "$3"],
     [isdict |-> TRUE, name |-> <<>>, price |-> "$1"]}

LinePool ==
    {<<"c", "o", "l", "a">>, <<" ", "C", "O", "L", "A", " ">>, <<"c", "o", "l">>,
     T_frie, T_pizza, <<" ", " ">>}

SeqsUpTo(S, n) == UNION {[1..k -> S] : k \in 0..n}

\* one call validate_items(ordered_items, ctx) with menu_items cached
ValidateCall(menu_items, ordered_items) ==
    /\ last = <<>>
    /\ last' = <<[pc            |-> "validated",
                  menu_items    |-> menu_items,
                  ordered_items |-> ordered_items,
                  validated     |-> ValidateItems(ordered_items, menu_items)]>>
    /\ UNCHANGED <<clock, cfg, heap, store, nturns, turns, replies>>

MatchNext ==
    \E menu_items \in SeqsUpTo(MenuPool, MaxMenuLen) :
        \E ordered_items \in SeqsUpTo(LinePool, MaxOrderLen) \ {<<>>} :
            ValidateCall(menu_items, ordered_items)

MatchSpec == Init /\ [][MatchNext]_vars

\* validate_items at the threshold: names that score 0.70 exactly, just
\* above it (0.737) and just below it (0.667) against the line "chicken",
\* and a line that scores 0.60, 0.63 and 0.57 against them
T_chicken == <<"c", "h", "i", "c", "k", "e", "n">>

T_chickan == <<"c", "h", "i", "c", "k", "a", "n">>

T_chicken_wings == <<"c", "h", "i", "c", "k", "e", "n", " ", "w", "i", "n", "g", "s">>

ThresholdMenuPool ==
    {[isdict |-> TRUE, name |-> T_chicken_wings, price |-> "$6"],
     [isdict |-> FALSE, name |-> T_chicken_wings \o <<"!">>, price |-> None],
     [isdict |-> TRUE,
      name |-> <<"C", "h", "i", "c", "k", "e", "n", " ", "W", "i", "n", "g">>,
      price |-> "$5"]}

ThresholdLinePool == {T_chicken, T_chickan}

ThresholdNext ==
    \E menu_items \in SeqsUpTo(ThresholdMenuPool, MaxMenuLen) :
        \E ordered_items \in SeqsUpTo(ThresholdLinePool, MaxOrderLen) \ {<<>>} :
            ValidateCall(menu_items, ordered_items)

ThresholdSpec == Init /\ [][ThresholdNext]_vars

(***************************************************************************)
(* The properties.                                                         *)
(***************************************************************************)
\* the calls of handle the state shows: the suspended ones and the last ended
ShownTurns == {turns[i] : i \in DOMAIN turns} \cup {last[k] : k \in 1..Len(last)}

LiveRefs(hp) == {r \in 1..Len(hp) : hp[r] # Freed}

\* what the session was when the turn loaded it (a new session if none)
LoadedDone(t) == t.loaded # <<>> /\ t.loaded[1].session_done

LoadedScratchpad(t) == IF t.loaded = <<>> THEN EmptyDict ELSE t.loaded[1].scratchpad

LoadedHistory(t) == IF t.loaded = <<>> THEN <<>> ELSE t.loaded[1].history

LoadedTurnCount(t) == IF t.loaded = <<>> THEN 0 ELSE t.loaded[1].turn_count

\* the record a load of key would return now
Stored(key) == store[key] # NoRef /\ ~Expired(heap[store[key]], clock)

\* the turn that ended in this step with a response
Returns(t) == last' # last /\ last' = <<t>> /\ t.pc = "returned"

UserMessages(history) == {k \in 1..Len(history) : history[k].role = "user"}

IsPrefix(xs, ys) == Len(xs) <= Len(ys) /\ SubSeq(ys, 1, Len(xs)) = xs

(* C1: within the TTL, done is a one-way latch: once the stored record of  *)
(* a session shows done, the stored record after every step shows done,    *)
(* every response returned from then on shows done, and a response that    *)
(* shows done leaves a stored record that shows done.                      *)
C1_DoneIsLatch ==
    [][\A key \in KeySet :
          /\ (Stored(key) /\ heap[store[key]].session_done /\ store'[key] # NoRef)
                => heap'[store'[key]].session_done
          /\ \A t \in {last'[k] : k \in 1..Len(last')} :
                (Returns(t) /\ t.key = key)
                   => /\ (Stored(key) /\ heap[store[key]].session_done) => t.session_done
                      /\ t.session_done => heap'[store'[key]].session_done]_vars

(* C2: a turn on a stored, unexpired session that is cancelled before save *)
(* leaves the stored record as it was when the turn loaded it.             *)
C2_CancelLeavesRecord ==
    \A t \in {last[k] : k \in 1..Len(last)} :
        (/\ t.pc = "cancelled"
         /\ t.loaded # <<>>
         /\ InFlight(t.key) = {}
         /\ Stored(t.key))
            => heap[store[t.key]] = t.loaded[1]

(* C3: no two turns of one session key are both between their load and    *)
(* their save.                                                             *)
C3_MutualExclusion == \A key \in KeySet : Cardinality(InFlight(key)) <= 1

(* C4: no failure of the menu, phone or order port ends a turn by raising  *)
(* out of handle.                                                          *)
C4_NoPortFailureEscapes ==
    \A t \in ShownTurns : ~(t.pc = "raised" /\ t.exc \in {"menu", "phone", "order"})

\* a place_order turn whose items all matched and whose order went out
OrderWentOut(t) ==
    /\ t.intent_data.intent = I_place_order
    /\ t.validated # <<>>
    /\ t.validated[1].valid # <<>>
    /\ t.validated[1].unknown = <<>>
    /\ t.order_calls # <<>>

(* C5: a place_order turn whose items all matched and whose order answer   *)
(* carries no order_id returns with done false and a try-again reply.      *)
C5_FailedOrderIsHardStop ==
    \A t \in ShownTurns :
        (t.pc = "returned" /\ OrderWentOut(t) /\ ~Truthy(t.order_id))
            => ~t.session_done /\ t.reply.kind # "order_placed"

\* a place_order turn whose reconciliation left something unmatched
LeftUnmatched(t) ==
    /\ t.intent_data.intent = I_place_order
    /\ t.validated # <<>>
    /\ t.validated[1].unknown # <<>>

(* C6: a place_order turn that leaves an item unmatched makes no call of   *)
(* the order port and none of the POS port, leaves done as it found it,    *)
(* and leaves the scratchpad, last_order_id and last_order_items with it,  *)
(* as it found it; it asks to clarify and goes on to the save.             *)
C6_UnmatchedSubmitsNothing ==
    \A t \in ShownTurns :
        LeftUnmatched(t)
            => /\ t.order_calls = <<>>
               /\ t.pos_calls = <<>>
               /\ t.pc \in {"await_analytics", "returned", "cancelled"}
               /\ t.reply.kind = "order_clarify"
               /\ t.session_done = LoadedDone(t)
               /\ t.snapshot[1].scratchpad = LoadedScratchpad(t)
               /\ (\A k \in {"last_order_id", "last_order_items"} :
                      Has(t.snapshot[1].scratchpad, k) => Has(LoadedScratchpad(t), k))

\* an order for something off the cached menu was answered
C6_Witness ==
    /\ last # <<>>
    /\ last[1].pc = "returned"
    /\ LeftUnmatched(last[1])
    /\ last[1].validated[1].valid # <<>>
    /\ MenuItemsOf(LoadedScratchpad(last[1])) # <<>>

\* the step sets done on the context r: it was not set, or r is new
SetsDone(r) ==
    /\ r \in LiveRefs(heap') /\ heap'[r].session_done
    /\ r \in LiveRefs(heap) => ~heap[r].session_done

(* C7: done goes from false to true only in a place_order turn whose items *)
(* all matched and whose order the order port accepted (it gave an id).    *)
C7_DoneOnlyByAcceptedOrder ==
    [][\A r \in LiveRefs(heap') :
          SetsDone(r)
             => \E t \in {turns'[i] : i \in DOMAIN turns'} \cup {last'[k] : k \in 1..Len(last')} :
                   /\ t.ctx = r
                   /\ t.intent_data.intent = I_place_order
                   /\ t.validated # <<>>
                   /\ t.validated[1].unknown = <<>>
                   /\ Truthy(t.order_id)]_vars

\* the order lines of the turn that are not blank, normalized, in input order
OrderLines(t) ==
    LET NotBlank(x) == Strip(x) # <<>>
        lines == SelectSeq(t.intent_data.items, NotBlank)
    IN  [k \in 1..Len(lines) |-> Lower(Strip(lines[k]))]

\* the menu the session had cached when the turn loaded it
LoadedMenu(t) == MenuItemsOf(LoadedScratchpad(t))

\* a place_order turn whose items all matched and whose order got an id
OrderAccepted(t) == OrderWentOut(t) /\ Truthy(t.order_id)

(* C8: a place_order turn whose items all matched and whose order got an   *)
(* id returns done, with last_order_id the id and last_order_items the     *)
(* matched entries in input order in the scratchpad, after one call of the *)
(* POS port with that id and those items, and with the id in the reply.    *)
C8_AcceptedOrderCompletes ==
    \A t \in {last[k] : k \in 1..Len(last)} :
        (t.pc = "returned" /\ OrderAccepted(t))
            => /\ t.session_done
               /\ Has(t.snapshot[1].scratchpad, "last_order_id")
               /\ t.snapshot[1].scratchpad["last_order_id"] = t.order_id
               /\ Has(t.snapshot[1].scratchpad, "last_order_items")
               /\ t.snapshot[1].scratchpad["last_order_items"] = t.validated[1].valid
               /\ Len(t.validated[1].valid) = Len(OrderLines(t))
               /\ \A k \in 1..Len(OrderLines(t)) :
                     /\ t.validated[1].valid[k]
                           \in {LoadedMenu(t)[x] : x \in 1..Len(LoadedMenu(t))}
                     /\ FracGe(Ratio(OrderLines(t)[k], ItemNameLower(t.validated[1].valid[k])),
                               FuzzyThreshold)
               /\ t.pos_calls = <<[order_id |-> t.order_id,
                                   items    |-> t.validated[1].valid,
                                   notes    |-> t.intent_data.notes]>>
               /\ t.reply.kind = "order_placed"
               /\ t.reply.order_id = t.order_id

(* C9: once N turns of a session key have returned, within the TTL and     *)
(* with no stored record to start from, the stored record counts N turns   *)
(* and holds N user messages.                                              *)
C9_TurnCountIsTurnsReturned ==
    \A key \in KeySet :
        (/\ nturns > 0
         /\ replies[key] = nturns
         /\ InFlight(key) = {}
         /\ clock <= ttl_minutes)
            => /\ store[key] # NoRef
               /\ heap[store[key]].turn_count = replies[key]
               /\ Cardinality(UserMessages(heap[store[key]].history)) = replies[key]

\* turn_count is the number of user entries of the history
TurnCountMatches(c) == c.turn_count = Cardinality(UserMessages(c.history))

\* the turn that began in this step
Begins(t) ==
    /\ nturns' = nturns + 1
    /\ t.id = nturns'
    /\ t \in {turns'[i] : i \in DOMAIN turns'} \cup {last'[k] : k \in 1..Len(last')}

(* C10: every session record, stored or held by a running turn, has        *)
(* turn_count equal to the number of user entries of its history; a        *)
(* record's history only grows, by appending; the step that begins a turn  *)
(* appends exactly one user message, the turn's, and adds one to           *)
(* turn_count, and no other step touches either.                           *)
C10_TurnCountAndHistory ==
    [][/\ \A r \in LiveRefs(heap') : TurnCountMatches(heap'[r])
       /\ \A r \in LiveRefs(heap) \cap LiveRefs(heap') :
             /\ IsPrefix(heap[r].history, heap'[r].history)
             /\ nturns' = nturns => /\ heap'[r].history = heap[r].history
                                    /\ heap'[r].turn_count = heap[r].turn_count
       /\ \A t \in {turns'[i] : i \in DOMAIN turns'} \cup {last'[k] : k \in 1..Len(last')} :
             (Begins(t) /\ t.ctx \in LiveRefs(heap'))
                => /\ heap'[t.ctx].history
                         = Append(LoadedHistory(t),
                                  [role |-> "user", text |-> t.text, timestamp |-> t.now])
                   /\ heap'[t.ctx].turn_count = LoadedTurnCount(t) + 1
                   /\ \A r \in (LiveRefs(heap) \cap LiveRefs(heap')) \ {t.ctx} :
                         heap'[r].history = heap[r].history]_vars

\* a session that has taken two turns
C10_Witness ==
    \E r \in LiveRefs(heap) :
        /\ heap[r].turn_count = 2
        /\ Len(heap[r].history) = 2
        /\ heap[r].history[1].text # heap[r].history[2].text

\* now - last_seen_at <= ttl, the boundary now - last_seen_at = ttl included
WithinTtl(c, now) == now - c.last_seen_at <= ttl_minutes

\* the turns the state after the step shows
ShownTurnsAfter == {turns'[i] : i \in DOMAIN turns'} \cup {last'[k] : k \in 1..Len(last')}

(* C11: save and load round trip.  The turn that returns in a step has     *)
(* saved its context under the key of the context's own meta; a record in  *)
(* the store sits under the key of its own meta, one per key; a load of a  *)
(* stored record, now and at the boundary now - last_seen_at = ttl, gives  *)
(* back that record and leaves the store alone; and a turn that begins     *)
(* while the stored record is within the TTL works on that very record, as *)
(* it was stored.                                                          *)
C11_SaveLoadRoundTrip ==
    [][/\ \A t \in ShownTurnsAfter :
             Returns(t) => /\ store'[t.key] = t.ctx
                           /\ KeyOf(heap'[t.ctx]) = t.key
       /\ \A key \in KeySet :
             store'[key] # NoRef
                => /\ KeyOf(heap'[store'[key]]) = key
                   /\ \A now \in {clock', heap'[store'[key]].last_seen_at + ttl_minutes} :
                         WithinTtl(heap'[store'[key]], now)
                            => Load(store', heap', key, now)
                                  = [ref |-> store'[key], store |-> store']
       /\ \A t \in ShownTurnsAfter :
             (/\ Begins(t)
              /\ store[t.key] # NoRef
              /\ WithinTtl(heap[store[t.key]], clock))
                => /\ t.ctx = store[t.key]
                   /\ t.loaded = <<heap[store[t.key]]>>
                   /\ ~t.evicted]_vars

\* a turn has loaded the record of its session at the boundary,
\* now - last_seen_at = ttl, and has saved it again
C11_Witness ==
    /\ last # <<>>
    /\ last[1].pc = "returned"
    /\ last[1].loaded # <<>>
    /\ last[1].now - last[1].loaded[1].last_seen_at = ttl_minutes
    /\ store[last[1].key] = last[1].ctx

(* C12: lazy expiry.  A turn that begins while the record stored for its   *)
(* key has now - last_seen_at > ttl finds no session: its load pops the    *)
(* record, which the store holds no longer after the step (the key is      *)
(* empty, or holds what this turn saved), and the turn works on a new      *)
(* record, created now, with this turn's message as its first.  A key the  *)
(* store does not hold loads as absent, now and later, and stays empty.    *)
C12_LazyExpiry ==
    [][/\ \A t \in ShownTurnsAfter :
             (/\ Begins(t)
              /\ store[t.key] # NoRef
              /\ ~WithinTtl(heap[store[t.key]], clock))
                => /\ t.evicted
                   /\ t.loaded = <<>>
                   /\ t.ctx # store[t.key]
                   /\ store'[t.key] \in {NoRef, t.ctx}
                   /\ t.ctx \in LiveRefs(heap')
                         => /\ heap'[t.ctx].created_at = clock
                            /\ heap'[t.ctx].turn_count = 1
                            /\ heap'[t.ctx].history
                                  = <<[role |-> "user", text |-> t.text,
                                       timestamp |-> t.now]>>
       /\ \A key \in KeySet :
             store'[key] = NoRef
                => \A now \in {clock', MaxClock + 1} :
                      Load(store', heap', key, now) = [ref |-> NoRef, store |-> store']]_vars

\* a turn found the record of its session expired and has returned from a
\* new one, which is the record stored now
C12_Witness ==
    /\ last # <<>>
    /\ last[1].pc = "returned"
    /\ last[1].evicted
    /\ last[1].now > ttl_minutes
    /\ last[1].snapshot[1].turn_count = 1
    /\ store[last[1].key] = last[1].ctx

\* what the sweep at time now must make of the store: the records with
\* now - last_seen_at > ttl gone, the others where they were
SweptExactly(st, hp, after, now) ==
    \A key \in DOMAIN st :
        /\ st[key] = NoRef => after[key] = NoRef
        /\ st[key] # NoRef
              => after[key] = (IF now - hp[st[key]].last_seen_at > ttl_minutes
                               THEN NoRef ELSE st[key])

\* the times a sweep is tried at: now, and for every stored record the
\* last minute of its TTL and the first minute after it
SweepTimes ==
    {clock} \cup UNION {{heap[store[key]].last_seen_at + ttl_minutes,
                         heap[store[key]].last_seen_at + ttl_minutes + 1} :
                           key \in {k \in KeySet : store[k] # NoRef}}

\* the step is a sweep: no turn begins, moves or ends and the clock stands
IsSweep == UNCHANGED <<clock, nturns, turns, last, replies>>

(* C13: the sweep removes exactly the expired records.  From any store the *)
(* program reaches, purge_expired at time now leaves no record with        *)
(* now - last_seen_at > ttl and leaves every other record under its key;   *)
(* and a step that sweeps leaves the store so and the records it keeps     *)
(* unchanged.                                                              *)
C13_SweepRemovesExactlyExpired ==
    [][/\ \A now \in SweepTimes :
             SweptExactly(store, heap, PurgeExpiredStore(store, heap, now), now)
       /\ IsSweep
             => /\ SweptExactly(store, heap, store', clock)
                /\ \A key \in KeySet :
                      store'[key] # NoRef => heap'[store'[key]] = heap[store[key]]]_vars

\* both sessions took one turn each and no other turn began: the sweep has
\* removed the expired record of the first and kept the second
C13_Witness ==
    /\ nturns = 2
    /\ turns = <<>>
    /\ replies[SessionKeys[1]] = 1
    /\ replies[SessionKeys[2]] = 1
    /\ store[SessionKeys[1]] = NoRef
    /\ store[SessionKeys[2]] # NoRef
    /\ clock - heap[store[SessionKeys[2]]].last_seen_at <= ttl_minutes

(* C14: the classifier degrades instead of failing: no turn ends by the    *)
(* classifier's failure raising out of handle; a turn whose classifier     *)
(* could not be reached or parsed goes on as intent unknown.               *)
C14_ClassifierDegrades ==
    \A t \in ShownTurns : ~(t.pc = "raised" /\ t.exc = "classifier")

\* the six step labels
StepLabels == {"menu", "phone", "address", "order", "fallback", "unknown"}

\* the labels the transition table gives an intent; for the intent
\* "unknown" the table's row reads either way
TableSteps(intent) ==
    IF intent = I_get_menu THEN {"menu"}
    ELSE IF intent = I_provide_phone THEN {"phone"}
    ELSE IF intent = I_provide_address THEN {"address"}
    ELSE IF intent = I_place_order THEN {"order"}
    ELSE IF intent = I_chitchat THEN {"fallback"}
    ELSE IF intent = I_unknown THEN {"fallback", "unknown"}
    ELSE {"unknown"}

(* C15: the step follows the intent.  The step of every session record is  *)
(* one of the six labels or unset, and the step in the snapshot a turn     *)
(* takes when its dispatch has returned is the label the transition table  *)
(* gives that turn's intent.                                               *)
C15_StepFollowsIntent ==
    /\ \A r \in LiveRefs(heap) : heap[r].step \in StepLabels \cup {None}
    /\ \A t \in ShownTurns :
          t.snapshot # <<>> => t.snapshot[1].step \in TableSteps(t.intent_data.intent)

(* C16: flow is fixed once set.  Every session record the store holds or a *)
(* dispatched turn works on has flow "food_order": flow is unset only      *)
(* before the first dispatch, which sets it whatever the intent; and no    *)
(* step changes the flow of a record that has one.                         *)
C16_FlowFixedOnceSet ==
    [][/\ \A r \in LiveRefs(heap') : heap'[r].flow = "food_order"
       /\ \A r \in LiveRefs(heap) \cap LiveRefs(heap') :
             heap[r].flow # None => heap'[r].flow = heap[r].flow
       /\ \A t \in ShownTurnsAfter :
             (t.snapshot # <<>> /\ t.loaded # <<>> /\ t.loaded[1].flow # None)
                => t.snapshot[1].flow = t.loaded[1].flow]_vars

\* a turn with an intent off the table, on a session that had its flow,
\* has returned with the flow still set
C16_Witness ==
    /\ last # <<>>
    /\ last[1].pc = "returned"
    /\ last[1].loaded # <<>>
    /\ last[1].loaded[1].flow = "food_order"
    /\ StepOf(last[1].intent_data.intent) = "unknown"
    /\ last[1].snapshot[1].flow = "food_order"
    /\ heap[store[last[1].key]].flow = "food_order"

\* the menu an answer of the menu webhook carries (none: the empty list)
FetchedMenu(data) ==
    IF Has(data, "menu") /\ data["menu"] # <<>> THEN data["menu"]
    ELSE IF Has(data, "items") THEN data["items"]
    ELSE <<>>

\* the answers a fetch can end with short of raising: those of the
\* webhook, and the gateway's own when no URL is configured
FetchResults == MenuResults \cup {[error |-> "url_not_configured"]}

\* the get_menu turn t gets the answer of its fetch in this step
MenuAnswered(t) ==
    /\ t \in ShownTurnsAfter
    /\ t.intent_data.intent = I_get_menu
    /\ t.reply.kind # "none"
    /\ \/ Begins(t)
       \/ t.id \in DOMAIN turns /\ turns[t.id].pc = "await_menu"

\* the scratchpad and done of the turn's session before the step
ScratchpadBefore(t) ==
    IF Begins(t) THEN LoadedScratchpad(t) ELSE heap[t.ctx].scratchpad

DoneBefore(t) == IF Begins(t) THEN LoadedDone(t) ELSE heap[t.ctx].session_done

AsksForAddress(reply) == reply.kind = "phone_verified_ask_address"

(* C18: phone handling.  A provide_phone turn with neither a supplied nor  *)
(* a cached phone asks for the phone again and leaves the scratchpad as it *)
(* is; with a phone, the scratchpad holds the phone the reply names when   *)
(* the handler returns, whatever the verification said, and the reply goes *)
(* on to ask for the address, verified or not (with the webhook           *)
(* configured its answer is one of the two).                               *)
C18_PhoneCachedAndAddressAsked ==
    \A t \in ShownTurns :
        (t.intent_data.intent = I_provide_phone /\ t.reply.kind # "none")
            => IF ~Truthy(t.phone)
               THEN /\ t.reply.kind = "phone_ask_again"
                    /\ ~Has(t.snapshot[1].scratchpad, "phone")
               ELSE /\ Has(t.snapshot[1].scratchpad, "phone")
                    /\ t.snapshot[1].scratchpad["phone"] = t.reply.phone
                    /\ cfg.phone_url => AsksForAddress(t.reply)

\* the calls of validate_items the state shows
ValidateCalls == {last[k] : k \in {j \in 1..Len(last) : last[j].pc = "validated"}}

\* the entries of a menu that have a name
Named(menu_items) == {i \in 1..Len(menu_items) : ItemNameLower(menu_items[i]) # <<>>}

\* the line has an exact match: trimmed and lower-cased it is the
\* normalized name of an entry
HasExact(menu_items, line) ==
    /\ Strip(line) # <<>>
    /\ \E i \in Named(menu_items) : ItemNameLower(menu_items[i]) = Lower(Strip(line))

RECURSIVE ConcatLines(_, _, _)
\* the results of the lines of an order taken one by one, put together
ConcatLines(menu_items, ordered_items, field) ==
    IF ordered_items = <<>> THEN <<>>
    ELSE ValidateItems(<<Head(ordered_items)>>, menu_items)[field]
            \o ConcatLines(menu_items, Tail(ordered_items), field)

(* C19: exact match precedence.  An order line that, trimmed and lower-    *)
(* cased, is the normalized name of a menu entry is matched to an entry of *)
(* the menu with that name, whatever the ratios of the other names and the *)
(* threshold: it is never left unmatched nor matched to another name.  The *)
(* lines of an order are matched one by one, in order.                     *)
C19_ExactMatchWins ==
    \A v \in ValidateCalls :
        /\ v.validated.valid = ConcatLines(v.menu_items, v.ordered_items, "valid")
        /\ v.validated.unknown = ConcatLines(v.menu_items, v.ordered_items, "unknown")
        /\ \A k \in 1..Len(v.ordered_items) :
              LET line == v.ordered_items[k]
                  r    == ValidateItems(<<line>>, v.menu_items)
              IN  HasExact(v.menu_items, line)
                     => /\ r.unknown = <<>>
                        /\ Len(r.valid) = 1
                        /\ \E i \in Named(v.menu_items) :
                              /\ r.valid[1] = v.menu_items[i]
                              /\ ItemNameLower(v.menu_items[i]) = Lower(Strip(line))

\* " COLA " was ordered from the menu Cole, Cola and matched to Cola, the
\* second entry, though Cole scores 0.75 against it
C19_Witness ==
    /\ last # <<>>
    /\ last[1].pc = "validated"
    /\ last[1].ordered_items = <<<<" ", "C", "O", "L", "A", " ">>>>
    /\ Len(last[1].menu_items) = 2
    /\ ItemNameLower(last[1].menu_items[1]) = <<"c", "o", "l", "e">>
    /\ last[1].menu_items[2] = [isdict |-> TRUE, name |-> T_Cola, price |-> "$2"]
    /\ last[1].validated = [valid |-> <<last[1].menu_items[2]>>, unknown |-> <<>>]

\* the name of entry i scores the maximum against the line
ScoresMax(menu_items, cand_lower, i) ==
    \A j \in Named(menu_items) :
        FracGe(Ratio(cand_lower, ItemNameLower(menu_items[i])),
               Ratio(cand_lower, ItemNameLower(menu_items[j])))

\* the first entry, in menu order, whose name scores the maximum
FirstMax(menu_items, cand_lower) ==
    CHOOSE i \in Named(menu_items) :
        /\ ScoresMax(menu_items, cand_lower, i)
        /\ \A j \in Named(menu_items) : ScoresMax(menu_items, cand_lower, j) => i <= j

(* C20: fuzzy tie-break.  For an order line with no exact match, the entry *)
(* accepted is the first entry of the menu, in menu order, whose name      *)
(* scores the maximum ratio against the line, for every menu, menus with   *)
(* several entries of one normalized name included.                        *)
C20_FuzzyTieKeepsFirst ==
    \A v \in ValidateCalls :
        \A k \in 1..Len(v.ordered_items) :
            LET line == v.ordered_items[k]
                r    == ValidateItems(<<line>>, v.menu_items)
            IN  (/\ Strip(line) # <<>>
                 /\ ~HasExact(v.menu_items, line)
                 /\ r.valid # <<>>)
                    => r.valid = <<v.menu_items[FirstMax(v.menu_items, Lower(Strip(line)))]>>

\* the best ratio of the line over the names of the menu reaches the
\* threshold
BestReaches(menu_items, cand_lower) ==
    \E i \in Named(menu_items) :
        FracGe(Ratio(cand_lower, ItemNameLower(menu_items[i])), FuzzyThreshold)

(* C21: the threshold boundary.  An order line with no exact match, against *)
(* a menu that is not empty, is matched if and only if its maximum ratio    *)
(* over the names of the menu is greater than or equal to the threshold,    *)
(* 0.7: at exactly the threshold it is matched, below it it is left         *)
(* unmatched, as its trimmed text.                                          *)
C21_ThresholdBoundary ==
    \A v \in ValidateCalls :
        \A k \in 1..Len(v.ordered_items) :
            LET line == v.ordered_items[k]
                r    == ValidateItems(<<line>>, v.menu_items)
            IN  (/\ v.menu_items # <<>>
                 /\ Strip(line) # <<>>
                 /\ ~HasExact(v.menu_items, line))
                    => IF BestReaches(v.menu_items, Lower(Strip(line)))
                       THEN Len(r.valid) = 1 /\ r.unknown = <<>>
                       ELSE r.valid = <<>> /\ r.unknown = <<Strip(line)>>

\* "chicken" and "chickan" were ordered from the menu chicken wings!,
\* chicken wings: "chicken" scores 14/20 against the second entry, exactly
\* the threshold, and is matched to it; "chickan" scores 12/20 and is not
C21_Witness ==
    /\ last # <<>>
    /\ last[1].pc = "validated"
    /\ last[1].ordered_items = <<T_chicken, T_chickan>>
    /\ Len(last[1].menu_items) = 2
    /\ last[1].menu_items[2].name = T_chicken_wings
    /\ Ratio(T_chicken, ItemNameLower(last[1].menu_items[1])) = <<14, 21>>
    /\ Ratio(T_chicken, ItemNameLower(last[1].menu_items[2])) = <<14, 20>>
    /\ Ratio(T_chickan, ItemNameLower(last[1].menu_items[2])) = <<12, 20>>
    /\ last[1].validated = [valid |-> <<last[1].menu_items[2]>>, unknown |-> <<T_chickan>>]

\* the lines of an order that are not blank, trimmed, in input order
TrimmedLines(ordered_items) ==
    LET NotBlank(x) == Strip(x) # <<>>
        lines == SelectSeq(ordered_items, NotBlank)
    IN  [k \in 1..Len(lines) |-> Strip(lines[k])]

(* C22: the empty menu degrade.  A reconciliation against an empty cached   *)
(* menu (or none) gives an empty matched list and an unmatched list that is *)
(* the input lines trimmed, blank lines left out, in input order.           *)
C22_EmptyMenuDegrades ==
    \A v \in ValidateCalls :
        v.menu_items = <<>>
            => /\ v.validated.valid = <<>>
               /\ v.validated.unknown = TrimmedLines(v.ordered_items)

\* the places of 1..n marked in side, in increasing order
RECURSIVE PlacesOf(_, _)
PlacesOf(side, n) ==
    IF n = 0 THEN <<>>
    ELSE IF side[n] THEN Append(PlacesOf(side, n - 1), n) ELSE PlacesOf(side, n - 1)

(* C23: reconciliation partitions its input in order.  Against a menu that *)
(* is not empty, the lines that are not blank split into those matched and *)
(* those not: the matched list holds, in input order, one menu entry for   *)
(* each line matched, the entry that line gets on its own; the unmatched   *)
(* list holds, in input order, the trimmed text of each other line; blank  *)
(* lines give nothing.                                                     *)
C23_PartitionInOrder ==
    \A v \in ValidateCalls :
        v.menu_items # <<>>
            => LET lines == TrimmedLines(v.ordered_items)
                   n     == Len(lines)
               IN  /\ Len(v.validated.valid) + Len(v.validated.unknown) = n
                   /\ \E side \in [1..n -> BOOLEAN] :
                         LET ms == PlacesOf(side, n)
                             us == PlacesOf([k \in 1..n |-> ~side[k]], n)
                         IN  /\ Len(v.validated.valid) = Len(ms)
                             /\ Len(v.validated.unknown) = Len(us)
                             /\ \A j \in 1..Len(ms) :
                                   /\ \E i \in 1..Len(v.menu_items) :
                                         v.validated.valid[j] = v.menu_items[i]
                                   /\ ValidateItems(<<lines[ms[j]]>>, v.menu_items)
                                         = [valid   |-> <<v.validated.valid[j]>>,
                                            unknown |-> <<>>]
                             /\ \A j \in 1..Len(us) :
                                   /\ v.validated.unknown[j] = lines[us[j]]
                                   /\ ValidateItems(<<lines[us[j]]>>, v.menu_items).valid = <<>>

\* "frie" and then " COLA " were ordered from a menu that lists Cola before
\* Fries: the matched list is Fries, Cola, the order of the input
C23_Witness ==
    /\ last # <<>>
    /\ last[1].pc = "validated"
    /\ last[1].ordered_items = <<T_frie, <<" ", "C", "O", "L", "A", " ">>>>
    /\ Len(last[1].menu_items) = 2
    /\ last[1].menu_items[1].name = T_Cola
    /\ ItemNameLower(last[1].menu_items[2]) = <<"f", "r", "i", "e", "s">>
    /\ last[1].validated = [valid   |-> <<last[1].menu_items[2], last[1].menu_items[1]>>,
                            unknown |-> <<>>]

\* the turn was dispatched on the branch of chitchat and "unknown" or on
\* the safety net, and its dispatch has returned
FellBack(t) ==
    /\ t.snapshot # <<>>
    /\ StepOf(t.intent_data.intent) \in {"fallback", "unknown"}

(* C24: dispatch never deletes a scratchpad key.  No step takes a key out  *)
(* of the scratchpad of a session record; the scratchpad a turn shows in   *)
(* its snapshot, and the one it saves, has every key the session had when  *)
(* the turn loaded it, whatever the intent; and the dispatch of a          *)
(* chitchat, unknown or unrecognized intent leaves the scratchpad and done *)
(* as the turn found them.                                                 *)
C24_ScratchpadKeysKept ==
    [][/\ \A r \in LiveRefs(heap) \cap LiveRefs(heap') :
             DOMAIN heap[r].scratchpad \subseteq DOMAIN heap'[r].scratchpad
       /\ \A t \in ShownTurnsAfter :
             /\ t.snapshot # <<>>
                   => DOMAIN LoadedScratchpad(t) \subseteq DOMAIN t.snapshot[1].scratchpad
             /\ Returns(t)
                   => DOMAIN LoadedScratchpad(t)
                         \subseteq DOMAIN heap'[store'[t.key]].scratchpad
             /\ (Begins(t) /\ FellBack(t))
                   => /\ heap'[t.ctx].scratchpad = LoadedScratchpad(t)
                      /\ heap'[t.ctx].session_done = LoadedDone(t)
                      /\ t.snapshot[1].scratchpad = LoadedScratchpad(t)
                      /\ t.session_done = LoadedDone(t)]_vars

\* a chitchat turn on a session that had a phone and an address cached has
\* returned: the stored scratchpad is the one it loaded
C24_Witness ==
    /\ last # <<>>
    /\ last[1].pc = "returned"
    /\ last[1].intent_data.intent = I_chitchat
    /\ DOMAIN LoadedScratchpad(last[1]) = {"phone", "address"}
    /\ last[1].snapshot[1].scratchpad = LoadedScratchpad(last[1])
    /\ heap[store[last[1].key]].scratchpad = LoadedScratchpad(last[1])

(* C25: last_seen_at never decreases.  The clock never runs backwards; the *)
(* last_seen_at of the record stored under a key is, after every step, at  *)
(* least what it was before the step, overlapping turns of the key         *)
(* included; and the step that begins a turn sets the last_seen_at of the  *)
(* turn's record to the turn's timestamp.                                  *)
C25_LastSeenNeverDecreases ==
    [][/\ clock' >= clock
       /\ \A key \in KeySet :
             (store[key] # NoRef /\ store'[key] # NoRef)
                => heap'[store'[key]].last_seen_at >= heap[store[key]].last_seen_at
       /\ \A t \in ShownTurnsAfter :
             (Begins(t) /\ t.ctx \in LiveRefs(heap'))
                => /\ t.now = clock
                   /\ heap'[t.ctx].last_seen_at = t.now]_vars

\* two continuations of a turn that differ at most in how the notifications
\* ended
SameForUser(r1, r2) ==
    /\ r1.c = r2.c
    /\ [r1.t EXCEPT !.notified = <<>>] = [r2.t EXCEPT !.notified = <<>>]

\* the turn t went on in this step from the suspension point pc
WentOnFrom(t, pc) ==
    /\ t \in ShownTurnsAfter
    /\ t.id \in DOMAIN turns
    /\ turns[t.id].pc = pc
    /\ t # turns[t.id]
    /\ t.pc # "cancelled"

(* C26: notification failures have no user impact.  A turn that waits for  *)
(* the POS port or the analytics port goes on the same way whether the     *)
(* POST ends with a response or with an exception; no turn ends by a       *)
(* failure of either port raising out of handle; the turn that waited for  *)
(* analytics returns the reply, done flag and snapshot it had and saves    *)
(* its record, unchanged by the port; the turn that waited for the POS     *)
(* port goes on to set done and to the same reply.                         *)
C26_NotificationFailuresHarmless ==
    [][/\ \A i \in DOMAIN turns : \A outcome \in PortOutcomes :
             LET c == heap[turns[i].ctx]
             IN  /\ turns[i].pc = "await_pos"
                       => /\ AfterPosPort(c, turns[i], outcome).t.pc
                                \in {"await_analytics", "returned"}
                          /\ SameForUser(AfterPosPort(c, turns[i], outcome),
                                         AfterPosPort(c, turns[i], "response"))
                 /\ turns[i].pc = "await_analytics"
                       => /\ AfterAnalyticsPort(c, turns[i], outcome).t.pc = "returned"
                          /\ SameForUser(AfterAnalyticsPort(c, turns[i], outcome),
                                         AfterAnalyticsPort(c, turns[i], "response"))
       /\ \A t \in ShownTurnsAfter :
             /\ ~(t.pc = "raised" /\ t.exc \in {"pos", "analytics"})
             /\ WentOnFrom(t, "await_analytics")
                   => /\ Returns(t)
                      /\ store'[t.key] = t.ctx
                      /\ heap'[t.ctx] = heap[t.ctx]
                      /\ t.reply = turns[t.id].reply
                      /\ t.session_done = turns[t.id].session_done
                      /\ t.snapshot = turns[t.id].snapshot
             /\ WentOnFrom(t, "await_pos")
                   => /\ t.pc \in {"await_analytics", "returned"}
                      /\ t.reply.kind = "order_placed"
                      /\ heap'[t.ctx].scratchpad = heap[t.ctx].scratchpad]_vars

\* an order turn has returned done and saved its record though the POST to
\* the POS port and the POST to the analytics port both ended with an
\* exception
C26_Witness ==
    /\ last # <<>>
    /\ last[1].pc = "returned"
    /\ last[1].notified = <<[port |-> "pos", ended |-> "swallowed"],
                            [port |-> "analytics", ended |-> "swallowed"]>>
    /\ last[1].reply.kind = "order_placed"
    /\ last[1].session_done
    /\ store[last[1].key] = last[1].ctx
    /\ heap[last[1].ctx].session_done

\* the turn t took this step: it began in it or went on in it
Acts(t) ==
    /\ t \in ShownTurnsAfter
    /\ \/ Begins(t)
       \/ /\ t.id \in DOMAIN turns
          /\ t.id \in DOMAIN turns' => turns'[t.id] # turns[t.id]

RECURSIVE Finish(_)
\* the ways handle can go on to its end from r = [c, t], over the answers
\* of the ports
Finish(r) ==
    IF r.t.pc = "await_menu"
    THEN UNION {Finish(AfterMenuPort(r.c, r.t, data)) : data \in MenuResults}
    ELSE IF r.t.pc = "await_phone"
    THEN UNION {Finish(AfterPhonePort(r.c, r.t, data)) : data \in PhoneResults}
    ELSE IF r.t.pc = "await_order"
    THEN UNION {Finish(AfterOrderPort(r.c, r.t, data)) : data \in OrderResults(r.t.id)}
    ELSE IF r.t.pc = "await_pos"
    THEN UNION {Finish(AfterPosPort(r.c, r.t, outcome)) : outcome \in PortOutcomes}
    ELSE IF r.t.pc = "await_analytics"
    THEN UNION {Finish(AfterAnalyticsPort(r.c, r.t, outcome)) : outcome \in PortOutcomes}
    ELSE {r}

\* the ends of the turn t run on its own, with nothing else between its
\* load and its save: from the record it loaded (a new one if none), over
\* the answers of the classifier that give the turn's intent data and the
\* answers of the ports
RunAlone(t) ==
    LET c0 == IF t.loaded = <<>>
              THEN SessionContextNew(t.key[1], t.key[2], t.key[3], t.now)
              ELSE t.loaded[1]
        t0 == [NewTurn(t.id, t.key, t.now, t.ctx, t.loaded) EXCEPT !.evicted = t.evicted]
    IN  UNION {Finish(HandleFrom(c0, t0, llm)) :
                  llm \in {a \in LLMAnswers : ~RouteRaises(a) /\ Route(a) = t.intent_data}}

(* C27: turns on different session keys do not interfere.  The step of a   *)
(* turn on one key leaves the store entry of every other key, the record   *)
(* under it, the turns of every other key and their records as they were;  *)
(* and with the turns of different keys interleaved at will, a turn that   *)
(* returns gives the response and stores the record that the same turn,    *)
(* with the same answers, gives when it runs with no other turn between    *)
(* its load and its save.                                                  *)
C27_KeysDoNotInterfere ==
    [][\A t \in ShownTurnsAfter :
          /\ Acts(t)
                => /\ \A key \in KeySet \ {t.key} :
                         /\ store'[key] = store[key]
                         /\ replies'[key] = replies[key]
                         /\ store[key] # NoRef => heap'[store[key]] = heap[store[key]]
                   /\ \A i \in DOMAIN turns :
                         turns[i].key # t.key
                            => /\ i \in DOMAIN turns'
                               /\ turns'[i] = turns[i]
                               /\ heap'[turns[i].ctx] = heap[turns[i].ctx]
          /\ Returns(t)
                => /\ store'[t.key] = t.ctx
                   /\ \E r \in RunAlone(t) : r.t = t /\ r.c = heap'[t.ctx]]_vars

\* while a turn of the second session is suspended on a port, a turn of
\* the first session that began after it has ordered, got its order placed
\* and returned
C27_Witness ==
    /\ last # <<>>
    /\ last[1].pc = "returned"
    /\ last[1].key = SessionKeys[1]
    /\ last[1].reply.kind = "order_placed"
    /\ \E i \in DOMAIN turns : turns[i].key = SessionKeys[2] /\ i < last[1].id
    /\ store[SessionKeys[1]] = last[1].ctx

\* a place_order turn that was dispatched with no item to match: no lines
\* at all, or blank lines only against a cached menu that is not empty
NothingOrdered(t) ==
    /\ t.intent_data.intent = I_place_order
    /\ t.validated # <<>>
    /\ \/ t.intent_data.items = <<>>
       \/ /\ TrimmedLines(t.intent_data.items) = <<>>
          /\ t.payload_items = <<>>
          /\ t.validated[1].unknown = <<>>

(* C28: nothing is ordered without a matched item.  A place_order turn     *)
(* whose item list is empty, or holds blank lines only while a menu that   *)
(* is not empty is cached, makes no call of the order port and does not    *)
(* set done.                                                               *)
C28_NoOrderWithoutItems ==
    \A t \in ShownTurns :
        NothingOrdered(t)
            => /\ t.order_calls = <<>>
               /\ t.pos_calls = <<>>
               /\ t.reply.kind # "order_placed"
               /\ t.session_done => LoadedDone(t)

\* what the scratchpad holds of the last order
LastOrderOf(scratchpad) ==
    [k \in {"last_order_id", "last_order_items"} \cap DOMAIN scratchpad |-> scratchpad[k]]

(* C29: at most one order per session.  A turn that finds its session done *)
(* makes no call of the order port, and once a session record shows done   *)
(* no step writes last_order_id or last_order_items in it, the steps of a  *)
(* place_order turn that overlaps the one that set done included.          *)
C29_OneOrderPerSession ==
    [][/\ \A t \in ShownTurnsAfter :
             (Begins(t) /\ LoadedDone(t)) => t.order_calls = <<>>
       /\ \A r \in LiveRefs(heap) \cap LiveRefs(heap') :
             heap[r].session_done
                => LastOrderOf(heap'[r].scratchpad) = LastOrderOf(heap[r].scratchpad)]_vars

=============================================================================
